---- MODULE Spec2Model ----
(***************************************************************************)
(* Model of the defaultdict crate: DefaultBTreeMap (src/src/default_btree.rs)*)
(* and DefaultHashMap (src/src/default_hashmap.rs).  Each is a wrapper      *)
(* around a std map (_inner) plus one stored default value (_default).      *)
(*                                                                         *)
(* A std map is modelled as a function from the set of stored keys to      *)
(* values.  An Option is modelled as a sequence: None is << >> and          *)
(* Some(x) is << x >>.  The value type is i8 as in the crate's tests.       *)
(***************************************************************************)
EXTENDS Integers, Sequences, FiniteSets, TLC

\* ---------------------------------------------------------------- bounds
MaxKey == 3
MaxVal == 2
MaxRepeat == 3

Keys == 0..MaxKey
Values == 0..MaxVal

\* ------------------------------------------------- value type and Option
\* <i8 as Default>::default()
V_default == 0

None == << >>
Some(x) == << x >>

\* Option::unwrap_or
unwrap_or(opt, d) == IF opt = None THEN d ELSE opt[1]

\* Option::unwrap_or_default: builds a fresh V::default() when None
unwrap_or_default(opt) == IF opt = None THEN V_default ELSE opt[1]

\* Results handed back to the caller, tagged by their Rust type.
Unit == << "unit" >>
Panic == << "panic" >>
Ref(v) == << "ref", v >>
RefMut(v) == << "refmut", v >>
Owned(v) == << "owned", v >>
OptOwned(opt) == IF opt = None THEN << "none" >> ELSE << "some", opt[1] >>
Pair(k, v) == << "pair", k, v >>

\* Option::unwrap on the result of a lookup: panics on None
unwrap(opt) == IF opt = None THEN Panic ELSE RefMut(opt[1])

\* ------------------------------------------------ the backing std maps
EmptyInner == [k \in {} |-> 0]

inner_contains_key(inner, key) == key \in DOMAIN inner

inner_len(inner) == Cardinality(DOMAIN inner)

inner_get(inner, key) == IF key \in DOMAIN inner THEN Some(inner[key]) ELSE None

inner_get_key_value(inner, key) ==
    IF key \in DOMAIN inner THEN Some(<< key, inner[key] >>) ELSE None

\* keys().any(|k| key == k)
inner_keys_any(inner, key) == \E k \in DOMAIN inner : key = k

\* insert: the new map and the Option holding the old value
inner_insert(inner, key, value) ==
    [map |-> [k \in (DOMAIN inner) \cup {key} |-> IF k = key THEN value ELSE inner[k]],
     old |-> inner_get(inner, key)]

\* remove: the new map and the Option holding the removed value
inner_remove(inner, key) ==
    [map |-> [k \in (DOMAIN inner) \ {key} |-> inner[k]],
     old |-> inner_get(inner, key)]

\* remove_entry: the new map and the Option holding the removed pair
inner_remove_entry(inner, key) ==
    [map |-> [k \in (DOMAIN inner) \ {key} |-> inner[k]],
     old |-> inner_get_key_value(inner, key)]

\* ------------------------------------------------------ DefaultBTreeMap
DefaultBTreeMap_new == [inner |-> EmptyInner, default |-> V_default]

DefaultBTreeMap_contains_key(self, key) == inner_contains_key(self.inner, key)

DefaultBTreeMap_len(self) == inner_len(self.inner)

DefaultBTreeMap_is_empty(self) == inner_len(self.inner) = 0

\* get that stores the default it returns
DefaultBTreeMap_get_inserting(self, key) ==
    LET v == unwrap_or(inner_get(self.inner, key), self.default)
    IN  [self |-> [self EXCEPT !.inner = inner_insert(self.inner, key, v).map],
         ret |-> Ref(v)]

DefaultBTreeMap_get(self, key) ==
    [self |-> self, ret |-> Ref(unwrap_or(inner_get(self.inner, key), self.default))]

DefaultBTreeMap_get_key_value(self, key) ==
    LET kv == unwrap_or(inner_get_key_value(self.inner, key), << key, self.default >>)
    IN  [self |-> self, ret |-> Pair(kv[1], kv[2])]

\* insert written as entry(key).or_insert(value): keeps the old value
DefaultBTreeMap_insert_keep_old(self, key, value) ==
    [self |-> [self EXCEPT !.inner =
                  IF inner_contains_key(self.inner, key) THEN self.inner
                  ELSE inner_insert(self.inner, key, value).map],
     ret |-> Unit]

\* the returned Option of the inner insert is dropped: the method returns ()
DefaultBTreeMap_insert(self, key, value) ==
    [self |-> [self EXCEPT !.inner = inner_insert(self.inner, key, value).map],
     ret |-> Unit]

\* get_mut without the exists test: inserts the default every time
DefaultBTreeMap_get_mut_always_insert(self, key) ==
    LET s1 == [self EXCEPT !.inner = inner_insert(self.inner, key, V_default).map]
    IN  [self |-> s1, ret |-> unwrap(inner_get(s1.inner, key))]

DefaultBTreeMap_get_mut(self, key) ==
    LET exists == inner_keys_any(self.inner, key)
        s1 == IF ~exists THEN DefaultBTreeMap_insert(self, key, V_default).self ELSE self
    IN  [self |-> s1, ret |-> unwrap(inner_get(s1.inner, key))]

\* remove written as get(key).cloned(): the entry stays in the map
DefaultBTreeMap_remove_cloned(self, key) ==
    [self |-> self, ret |-> Owned(unwrap_or_default(inner_get(self.inner, key)))]

DefaultBTreeMap_remove(self, key) ==
    LET r == inner_remove(self.inner, key)
    IN  [self |-> [self EXCEPT !.inner = r.map], ret |-> Owned(unwrap_or_default(r.old))]

\* remove_entry ending in unwrap(): panics on an absent key
DefaultBTreeMap_remove_entry_unwrap(self, key) ==
    LET r == inner_remove_entry(self.inner, key)
    IN  [self |-> [self EXCEPT !.inner = r.map],
         ret |-> IF r.old = None THEN Panic ELSE Pair(r.old[1][1], r.old[1][2])]

DefaultBTreeMap_remove_entry(self, key) ==
    LET r == inner_remove_entry(self.inner, key)
        kv == unwrap_or(r.old, << key, self.default >>)
    IN  [self |-> [self EXCEPT !.inner = r.map], ret |-> Pair(kv[1], kv[2])]

\* index ending in unwrap(): panics on an absent key
DefaultBTreeMap_index_unwrap(self, key) ==
    LET o == inner_get(self.inner, key)
    IN  [self |-> self, ret |-> IF o = None THEN Panic ELSE Ref(o[1])]

DefaultBTreeMap_index(self, key) ==
    [self |-> self, ret |-> Ref(unwrap_or(inner_get(self.inner, key), self.default))]

\* ------------------------------------------------------- DefaultHashMap
DefaultHashMap_new == [inner |-> EmptyInner, default |-> V_default]

DefaultHashMap_contains_key(self, key) == inner_contains_key(self.inner, key)

DefaultHashMap_len(self) == inner_len(self.inner)

DefaultHashMap_is_empty(self) == inner_len(self.inner) = 0

\* get that stores the default it returns, as a Python defaultdict does
DefaultHashMap_get_inserting(self, key) ==
    LET s1 == IF inner_contains_key(self.inner, key) THEN self
              ELSE [self EXCEPT !.inner = inner_insert(self.inner, key, V_default).map]
    IN  [self |-> s1, ret |-> Ref(unwrap_or(inner_get(s1.inner, key), self.default))]

DefaultHashMap_get(self, key) ==
    [self |-> self, ret |-> Ref(unwrap_or(inner_get(self.inner, key), self.default))]

\* get_key_value that stores the default it returns
DefaultHashMap_get_key_value_inserting(self, key) ==
    LET s1 == IF inner_contains_key(self.inner, key) THEN self
              ELSE [self EXCEPT !.inner = inner_insert(self.inner, key, V_default).map]
        kv == unwrap_or(inner_get_key_value(s1.inner, key), << key, self.default >>)
    IN  [self |-> s1, ret |-> Pair(kv[1], kv[2])]

DefaultHashMap_get_key_value(self, key) ==
    LET kv == unwrap_or(inner_get_key_value(self.inner, key), << key, self.default >>)
    IN  [self |-> self, ret |-> Pair(kv[1], kv[2])]

\* insert that drops the Option of the inner insert
DefaultHashMap_insert_discard(self, key, value) ==
    [self |-> [self EXCEPT !.inner = inner_insert(self.inner, key, value).map],
     ret |-> Unit]

\* returns the Option of the inner insert
DefaultHashMap_insert(self, key, value) ==
    LET r == inner_insert(self.inner, key, value)
    IN  [self |-> [self EXCEPT !.inner = r.map], ret |-> OptOwned(r.old)]

\* get_mut that hands out a detached copy of the default for an absent key
DefaultHashMap_get_mut_detached(self, key) ==
    [self |-> self, ret |-> RefMut(unwrap_or(inner_get(self.inner, key), V_default))]

DefaultHashMap_get_mut(self, key) ==
    LET exists == inner_keys_any(self.inner, key)
        s1 == IF ~exists THEN DefaultHashMap_insert(self, key, V_default).self ELSE self
    IN  [self |-> s1, ret |-> unwrap(inner_get(s1.inner, key))]

\* remove ending in unwrap(): panics on an absent key
DefaultHashMap_remove_unwrap(self, key) ==
    LET r == inner_remove(self.inner, key)
    IN  [self |-> [self EXCEPT !.inner = r.map],
         ret |-> IF r.old = None THEN Panic ELSE Owned(r.old[1])]

DefaultHashMap_remove(self, key) ==
    LET r == inner_remove(self.inner, key)
    IN  [self |-> [self EXCEPT !.inner = r.map], ret |-> Owned(unwrap_or_default(r.old))]

DefaultHashMap_remove_entry(self, key) ==
    LET r == inner_remove_entry(self.inner, key)
        kv == unwrap_or(r.old, << key, self.default >>)
    IN  [self |-> [self EXCEPT !.inner = r.map], ret |-> Pair(kv[1], kv[2])]

\* index ending in unwrap(): panics on an absent key
DefaultHashMap_index_unwrap(self, key) ==
    LET o == inner_get(self.inner, key)
    IN  [self |-> self, ret |-> IF o = None THEN Panic ELSE Ref(o[1])]

DefaultHashMap_index(self, key) ==
    [self |-> self, ret |-> Ref(unwrap_or(inner_get(self.inner, key), self.default))]

\* ------------------------------------------------------------ the state
VARIABLES
    variant,   \* which type the program instantiated: "btree" or "hash"
    map,       \* the map object: its _inner and _default fields
    last,      \* the last call: operation, arguments, result, map before it
    other,     \* a second map object of the same type, for two-map operations
    iterator   \* the DefaultHashMapIter in use, if any: None or Some(it)

vars == << variant, map, last, other, iterator >>

Variants == {"btree", "hash"}

\* dispatch on the type of the receiver
new(var) == IF var = "btree" THEN DefaultBTreeMap_new ELSE DefaultHashMap_new
contains_key(self, key) ==
    IF variant = "btree" THEN DefaultBTreeMap_contains_key(self, key)
    ELSE DefaultHashMap_contains_key(self, key)
len(self) ==
    IF variant = "btree" THEN DefaultBTreeMap_len(self) ELSE DefaultHashMap_len(self)
is_empty(self) ==
    IF variant = "btree" THEN DefaultBTreeMap_is_empty(self)
    ELSE DefaultHashMap_is_empty(self)
get(self, key) ==
    IF variant = "btree" THEN DefaultBTreeMap_get(self, key)
    ELSE DefaultHashMap_get(self, key)
get_key_value(self, key) ==
    IF variant = "btree" THEN DefaultBTreeMap_get_key_value(self, key)
    ELSE DefaultHashMap_get_key_value(self, key)
get_mut(self, key) ==
    IF variant = "btree" THEN DefaultBTreeMap_get_mut(self, key)
    ELSE DefaultHashMap_get_mut(self, key)
insert(self, key, value) ==
    IF variant = "btree" THEN DefaultBTreeMap_insert(self, key, value)
    ELSE DefaultHashMap_insert(self, key, value)
remove(self, key) ==
    IF variant = "btree" THEN DefaultBTreeMap_remove(self, key)
    ELSE DefaultHashMap_remove(self, key)
remove_entry(self, key) ==
    IF variant = "btree" THEN DefaultBTreeMap_remove_entry(self, key)
    ELSE DefaultHashMap_remove_entry(self, key)
index(self, key) ==
    IF variant = "btree" THEN DefaultBTreeMap_index(self, key)
    ELSE DefaultHashMap_index(self, key)

\* the record of a call
Call(op, key, val, res) ==
    [op |-> op, key |-> key, val |-> val, ret |-> res.ret, before |-> map]

Init ==
    /\ variant \in Variants
    /\ map = new(variant)
    /\ last = [op |-> "new", key |-> 0, val |-> 0, ret |-> Unit, before |-> new(variant)]
    /\ other = new(variant)
    /\ iterator = None

Get(k) ==
    LET res == get(map, k)
    IN  /\ map' = res.self
        /\ last' = Call("get", k, 0, res)
        /\ UNCHANGED << variant, other, iterator >>

GetKeyValue(k) ==
    LET res == get_key_value(map, k)
    IN  /\ map' = res.self
        /\ last' = Call("get_key_value", k, 0, res)
        /\ UNCHANGED << variant, other, iterator >>

GetMut(k) ==
    LET res == get_mut(map, k)
    IN  /\ map' = res.self
        /\ last' = Call("get_mut", k, 0, res)
        /\ UNCHANGED << variant, other, iterator >>

Insert(k, v) ==
    LET res == insert(map, k, v)
    IN  /\ map' = res.self
        /\ last' = Call("insert", k, v, res)
        /\ UNCHANGED << variant, other, iterator >>

Remove(k) ==
    LET res == remove(map, k)
    IN  /\ map' = res.self
        /\ last' = Call("remove", k, 0, res)
        /\ UNCHANGED << variant, other, iterator >>

RemoveEntry(k) ==
    LET res == remove_entry(map, k)
    IN  /\ map' = res.self
        /\ last' = Call("remove_entry", k, 0, res)
        /\ UNCHANGED << variant, other, iterator >>

Index(k) ==
    LET res == index(map, k)
    IN  /\ map' = res.self
        /\ last' = Call("index", k, 0, res)
        /\ UNCHANGED << variant, other, iterator >>

Next ==
    \/ \E k \in Keys : Get(k)
    \/ \E k \in Keys : GetKeyValue(k)
    \/ \E k \in Keys : GetMut(k)
    \/ \E k \in Keys, v \in Values : Insert(k, v)
    \/ \E k \in Keys : Remove(k)
    \/ \E k \in Keys : RemoveEntry(k)
    \/ \E k \in Keys : Index(k)

Spec == Init /\ [][Next]_vars

TypeOK ==
    /\ variant \in Variants
    /\ DOMAIN map.inner \subseteq Keys
    /\ \A k \in DOMAIN map.inner : map.inner[k] \in Values

\* ----------------------------------------------- construction macros
\* defaultbtreemap!(k1, k2, ...) : get_mut on each bare key, in order
RECURSIVE defaultbtreemap_keys(_, _)
defaultbtreemap_keys(m, ks) ==
    IF ks = << >> THEN m
    ELSE defaultbtreemap_keys(DefaultBTreeMap_get_mut(m, Head(ks)).self, Tail(ks))

\* the bare-key arm written with get instead of get_mut
RECURSIVE defaulthashmap_keys_get(_, _)
defaulthashmap_keys_get(m, ks) ==
    IF ks = << >> THEN m
    ELSE defaulthashmap_keys_get(DefaultHashMap_get(m, Head(ks)).self, Tail(ks))

\* defaulthashmap!(k1, k2, ...) : get_mut on each bare key, in order
RECURSIVE defaulthashmap_keys(_, _)
defaulthashmap_keys(m, ks) ==
    IF ks = << >> THEN m
    ELSE defaulthashmap_keys(DefaultHashMap_get_mut(m, Head(ks)).self, Tail(ks))

macro_keys(ks) ==
    IF variant = "btree" THEN defaultbtreemap_keys(DefaultBTreeMap_new, ks)
    ELSE defaulthashmap_keys(DefaultHashMap_new, ks)

\* ------------------------------------------------------------- helpers
\* the key of the last call was stored / not stored when the call was made
WasPresent == contains_key(last.before, last.key)
WasAbsent == ~contains_key(last.before, last.key)

\* the entries of every key other than the last call's key are as before
OthersUnchanged ==
    \A j \in Keys \ {last.key} :
        /\ contains_key(map, j) = contains_key(last.before, j)
        /\ get(map, j).ret = get(last.before, j).ret

\* the results of n successive get(key) calls starting from self
RECURSIVE get_rets(_, _, _)
get_rets(self, key, n) ==
    IF n = 0 THEN << >>
    ELSE LET r == get(self, key) IN << r.ret >> \o get_rets(r.self, key, n - 1)

\* --------------------------------------------------------------- claims

\* C1: get(k) on a key that is not stored returns the value type's default
\* and leaves the map unchanged (same entries, same len, contains_key(k)
\* still false); every further get(k) returns an equal value.
C1_GetAbsent ==
    (last.op = "get" /\ WasAbsent) =>
        /\ last.ret = Ref(V_default)
        /\ map.inner = last.before.inner
        /\ len(map) = len(last.before)
        /\ ~contains_key(map, last.key)
        /\ \A n \in 1..MaxRepeat :
              \A i \in 1..n : get_rets(map, last.key, n)[i] = last.ret

C1_Witness ==
    /\ last.op = "get"
    /\ WasAbsent
    /\ len(map) >= 2
    /\ \E j \in DOMAIN map.inner : map.inner[j] # V_default

\* C2: get_mut(k) on an absent key inserts (k, default): contains_key(k)
\* becomes true, get(k) is the default and len grows by exactly one; on a
\* present key len and the stored value are unchanged; no entry of another
\* key changes.
C2_GetMut ==
    (last.op = "get_mut") =>
        /\ last.ret # Panic
        /\ WasAbsent =>
              /\ contains_key(map, last.key)
              /\ get(map, last.key).ret = Ref(V_default)
              /\ len(map) = len(last.before) + 1
        /\ WasPresent =>
              /\ len(map) = len(last.before)
              /\ contains_key(map, last.key)
              /\ map.inner[last.key] = last.before.inner[last.key]
        /\ OthersUnchanged

C2_Witness ==
    /\ last.op = "get_mut"
    /\ WasAbsent
    /\ contains_key(map, last.key)
    /\ len(last.before) >= 1
    /\ len(map) = len(last.before) + 1

\* C3: remove(k) on an absent key returns the value type's default and
\* leaves the map unchanged; an empty map stays empty.
C3_RemoveAbsent ==
    (last.op = "remove" /\ WasAbsent) =>
        /\ last.ret = Owned(V_default)
        /\ map.inner = last.before.inner
        /\ len(map) = len(last.before)
        /\ is_empty(last.before) => is_empty(map)

C3_Witness ==
    /\ last.op = "remove"
    /\ WasAbsent
    /\ is_empty(map)
    /\ last.ret = Owned(V_default)

\* C4: remove(k) on a present key returns the stored value, removes only
\* that entry (len decreases by exactly one, other entries unchanged);
\* afterwards contains_key(k) is false and get(k) returns the default.
C4_RemovePresent ==
    (last.op = "remove" /\ WasPresent) =>
        /\ last.ret = Owned(last.before.inner[last.key])
        /\ len(map) = len(last.before) - 1
        /\ OthersUnchanged
        /\ ~contains_key(map, last.key)
        /\ get(map, last.key).ret = Ref(V_default)

C4_Witness ==
    /\ last.op = "remove"
    /\ WasPresent
    /\ last.before.inner[last.key] # V_default
    /\ len(map) >= 1
    /\ ~contains_key(map, last.key)

C6_InsertStores ==
    (last.op = "insert") =>
        /\ get(map, last.key).ret = Ref(last.val)
        /\ len(map) = len(last.before) + (IF WasAbsent THEN 1 ELSE 0)
        /\ OthersUnchanged

C6_Witness ==
    /\ last.op = "insert"
    /\ WasPresent
    /\ last.before.inner[last.key] # last.val
    /\ map.inner[last.key] = last.val
    /\ len(map) >= 2

BareKeys123 == macro_keys(<< 1, 2, 3 >>)

C9_RemoveEntry ==
    (last.op = "remove_entry") =>
        /\ WasPresent =>
              /\ last.ret = Pair(last.key, last.before.inner[last.key])
              /\ ~contains_key(map, last.key)
              /\ len(map) = len(last.before) - 1
              /\ OthersUnchanged
              /\ remove_entry(map, last.key).ret = Pair(last.key, V_default)
              /\ remove_entry(map, last.key).self = map
        /\ WasAbsent =>
              /\ last.ret = Pair(last.key, V_default)
              /\ map = last.before

C9_Witness ==
    /\ last.op = "remove_entry"
    /\ WasPresent
    /\ last.before.inner[last.key] # V_default
    /\ len(map) >= 1

\* C10: get_key_value(k) returns the stored (key, value) pair when k is
\* present and (the queried key, the default) when k is absent; it never
\* inserts: entries and len are unchanged.
C10_GetKeyValue ==
    (last.op = "get_key_value") =>
        /\ WasPresent => last.ret = Pair(last.key, last.before.inner[last.key])
        /\ WasAbsent => last.ret = Pair(last.key, V_default)
        /\ map.inner = last.before.inner
        /\ len(map) = len(last.before)

C10_Witness ==
    /\ last.op = "get_key_value"
    /\ WasAbsent
    /\ len(map) >= 1
    /\ last.ret = Pair(last.key, V_default)

\* ------------------------------------------------------------ equality
Bool(b) == << "bool", b >>

\* == of two std maps: same length, and every entry of a is found in b
inner_eq(a, b) ==
    /\ inner_len(a) = inner_len(b)
    /\ \A k \in DOMAIN a : inner_get(b, k) = Some(a[k])

\* derive(PartialEq): field by field, _inner then _default
DefaultBTreeMap_eq(self, o) == inner_eq(self.inner, o.inner) /\ self.default = o.default

\* an eq that looks at the keys only
DefaultHashMap_eq_keys_only(self, o) ==
    /\ inner_len(self.inner) = inner_len(o.inner)
    /\ \A k \in DOMAIN self.inner : inner_contains_key(o.inner, k)

DefaultHashMap_eq(self, o) == inner_eq(self.inner, o.inner) /\ self.default = o.default

eq(self, o) ==
    IF variant = "btree" THEN DefaultBTreeMap_eq(self, o) ELSE DefaultHashMap_eq(self, o)

\* defaultbtreemap!((k1, v1), (k2, v2), ...) : insert of each pair, in order
RECURSIVE defaultbtreemap_pairs(_, _)
defaultbtreemap_pairs(m, ps) ==
    IF ps = << >> THEN m
    ELSE defaultbtreemap_pairs(DefaultBTreeMap_insert(m, Head(ps)[1], Head(ps)[2]).self,
                               Tail(ps))

\* defaulthashmap!((k1, v1), (k2, v2), ...) : insert of each pair, in order
RECURSIVE defaulthashmap_pairs(_, _)
defaulthashmap_pairs(m, ps) ==
    IF ps = << >> THEN m
    ELSE defaulthashmap_pairs(DefaultHashMap_insert(m, Head(ps)[1], Head(ps)[2]).self,
                              Tail(ps))

macro_pairs(ps) ==
    IF variant = "btree" THEN defaultbtreemap_pairs(DefaultBTreeMap_new, ps)
    ELSE defaulthashmap_pairs(DefaultHashMap_new, ps)

\* bounds of the two-map specification
MaxKey2 == 1
MaxVal2 == 1
Keys2 == 0..MaxKey2
Values2 == 0..MaxVal2

\* a call on the second map
InsertOther(k, v) ==
    LET res == insert(other, k, v)
    IN  /\ other' = res.self
        /\ last' = Call("other.insert", k, v, res)
        /\ UNCHANGED << variant, map, iterator >>

GetMutOther(k) ==
    LET res == get_mut(other, k)
    IN  /\ other' = res.self
        /\ last' = Call("other.get_mut", k, 0, res)
        /\ UNCHANGED << variant, map, iterator >>

RemoveOther(k) ==
    LET res == remove(other, k)
    IN  /\ other' = res.self
        /\ last' = Call("other.remove", k, 0, res)
        /\ UNCHANGED << variant, map, iterator >>

\* map == other
Eq ==
    /\ last' = Call("eq", 0, 0, [ret |-> Bool(eq(map, other))])
    /\ UNCHANGED << variant, map, other, iterator >>

NextTwo ==
    \/ \E k \in Keys2, v \in Values2 : Insert(k, v)
    \/ \E k \in Keys2 : GetMut(k)
    \/ \E k \in Keys2 : Remove(k)
    \/ \E k \in Keys2, v \in Values2 : InsertOther(k, v)
    \/ \E k \in Keys2 : GetMutOther(k)
    \/ \E k \in Keys2 : RemoveOther(k)
    \/ Eq

SpecTwo == Init /\ [][NextTwo]_vars

\* the stored entries of a and b are the same
SameEntries(a, b) ==
    /\ DOMAIN a.inner = DOMAIN b.inner
    /\ \A k \in DOMAIN a.inner : a.inner[k] = b.inner[k]

\* C12: two maps of the same variant compare equal exactly when their
\* stored entries are equal; the stored default never changes the outcome
\* (it is the same in both), and for the hash variant two maps built by
\* inserting the same pairs in either order are equal.
C12_EqIsEntries ==
    (last.op = "eq") =>
        /\ last.ret = Bool(SameEntries(map, other))
        /\ map.default = other.default
        /\ \A k1 \in Keys2, v1 \in Values2, v2 \in Values2 : \A k2 \in Keys2 \ {k1} :
              eq(macro_pairs(<< << k1, v1 >>, << k2, v2 >> >>),
                 macro_pairs(<< << k2, v2 >>, << k1, v1 >> >>))

C12_Witness ==
    /\ last.op = "eq"
    /\ variant = "hash"
    /\ last.ret = Bool(TRUE)
    /\ len(map) = 2
    /\ \E k \in DOMAIN map.inner : map.inner[k] # V_default

\* ----------------------------------------------------------- iteration
\* bounds of the iteration specification
MaxKeyI == 2
MaxValI == 1
KeysI == 0..MaxKeyI
ValuesI == 0..MaxValI

\* what an iterator yielded, collected in the order it yielded it
Items(seq) == << "items", seq >>

\* the keys of S in ascending order: the order a BTreeMap keeps them in
RECURSIVE SortedKeys(_)
SortedKeys(S) ==
    IF S = {} THEN << >>
    ELSE LET m == CHOOSE x \in S : \A y \in S : x <= y
         IN  << m >> \o SortedKeys(S \ {m})

\* the orders a HashMap may visit the keys of S in: any enumeration of S
Orders(S) ==
    {o \in [1..Cardinality(S) -> S] : \A i, j \in 1..Cardinality(S) : o[i] = o[j] => i = j}

\* std iterators over the backing map, visiting the keys in the order ks
inner_iter(inner, ks) == [i \in 1..Len(ks) |-> << ks[i], inner[ks[i]] >>]
inner_keys(inner, ks) == ks
inner_values(inner, ks) == [i \in 1..Len(ks) |-> inner[ks[i]]]

\* what the body of a loop over mutable references does to a value:
\* leaves it alone (NoWrite) or stores w
NoWrite == -1
apply_write(w, v) == IF w = NoWrite THEN v ELSE w

\* the receiver after it was moved out of: nothing is left to the caller
Moved(self) == [inner |-> EmptyInner, default |-> self.default]

\* IntoIterator for &DefaultBTreeMap
DefaultBTreeMap_iter(self) ==
    [self |-> self, ret |-> Items(inner_iter(self.inner, SortedKeys(DOMAIN self.inner)))]

\* IntoIterator for DefaultBTreeMap
DefaultBTreeMap_into_iter(self) ==
    [self |-> Moved(self),
     ret |-> Items(inner_iter(self.inner, SortedKeys(DOMAIN self.inner)))]

\* a mutable iteration that also hands out the default field
DefaultBTreeMap_iter_mut_with_default(self, w) ==
    [self |-> [inner |-> [k \in DOMAIN self.inner |-> apply_write(w, self.inner[k])],
               default |-> apply_write(w, self.default)],
     ret |-> Items(inner_iter(self.inner, SortedKeys(DOMAIN self.inner)))]

\* IntoIterator for &mut DefaultBTreeMap, the loop body writing w
DefaultBTreeMap_iter_mut(self, w) ==
    [self |-> [self EXCEPT !.inner = [k \in DOMAIN self.inner |-> apply_write(w, self.inner[k])]],
     ret |-> Items(inner_iter(self.inner, SortedKeys(DOMAIN self.inner)))]

\* keys() in descending order
DefaultBTreeMap_keys_rev(self) ==
    LET ks == SortedKeys(DOMAIN self.inner)
    IN  [self |-> self, ret |-> Items([i \in 1..Len(ks) |-> ks[Len(ks) + 1 - i]])]

DefaultBTreeMap_keys(self) ==
    [self |-> self, ret |-> Items(inner_keys(self.inner, SortedKeys(DOMAIN self.inner)))]

DefaultBTreeMap_values(self) ==
    [self |-> self, ret |-> Items(inner_values(self.inner, SortedKeys(DOMAIN self.inner)))]

DefaultBTreeMap_into_keys(self) ==
    [self |-> Moved(self),
     ret |-> Items(inner_keys(self.inner, SortedKeys(DOMAIN self.inner)))]

DefaultBTreeMap_into_values(self) ==
    [self |-> Moved(self),
     ret |-> Items(inner_values(self.inner, SortedKeys(DOMAIN self.inner)))]

\* IntoIterator for &DefaultHashMap; order is the order the HashMap visits in
DefaultHashMap_iter(self, order) ==
    [self |-> self, ret |-> Items(inner_iter(self.inner, order))]

\* IntoIterator for &mut DefaultHashMap, the loop body writing w
DefaultHashMap_iter_mut(self, order, w) ==
    [self |-> [self EXCEPT !.inner = [k \in DOMAIN self.inner |-> apply_write(w, self.inner[k])]],
     ret |-> Items(inner_iter(self.inner, order))]

DefaultHashMap_keys(self, order) ==
    [self |-> self, ret |-> Items(inner_keys(self.inner, order))]

DefaultHashMap_values(self, order) ==
    [self |-> self, ret |-> Items(inner_values(self.inner, order))]

DefaultHashMap_into_keys(self, order) ==
    [self |-> Moved(self), ret |-> Items(inner_keys(self.inner, order))]

DefaultHashMap_into_values(self, order) ==
    [self |-> Moved(self), ret |-> Items(inner_values(self.inner, order))]

\* into_iter that collects the keys but hands the iterator an emptied map
DefaultHashMap_into_iter_emptied(self, order) ==
    [defaulthashmap |-> Moved(self), keys |-> inner_keys(self.inner, order)]

\* IntoIterator for DefaultHashMap: the keys are copied into a Vec in the
\* order self.keys() visits them, the map is moved into the iterator
DefaultHashMap_into_iter(self, order) ==
    [defaulthashmap |-> self, keys |-> inner_keys(self.inner, order)]

\* next that reads the last key and leaves it in the Vec
DefaultHashMapIter_next_no_pop(it) ==
    IF it.keys = << >> THEN [it |-> it, ret |-> << "none" >>]
    ELSE LET key == it.keys[Len(it.keys)]
             r == DefaultHashMap_remove(it.defaulthashmap, key)
         IN  [it |-> [defaulthashmap |-> r.self, keys |-> it.keys],
              ret |-> << "some", << key, r.ret[2] >> >>]

\* Iterator for DefaultHashMapIter: pop the last key, remove it from the map
DefaultHashMapIter_next(it) ==
    IF it.keys = << >> THEN [it |-> it, ret |-> << "none" >>]
    ELSE LET key == it.keys[Len(it.keys)]
             r == DefaultHashMap_remove(it.defaulthashmap, key)
         IN  [it |-> [defaulthashmap |-> r.self,
                      keys |-> SubSeq(it.keys, 1, Len(it.keys) - 1)],
              ret |-> << "some", << key, r.ret[2] >> >>]

\* Iterator::collect: next() until it returns None
RECURSIVE DefaultHashMapIter_collect(_)
DefaultHashMapIter_collect(it) ==
    LET n == DefaultHashMapIter_next(it)
    IN  IF n.ret = << "none" >> THEN [it |-> n.it, items |-> << >>]
        ELSE LET rest == DefaultHashMapIter_collect(n.it)
             IN  [it |-> rest.it, items |-> << n.ret[2] >> \o rest.items]

\* dispatch on the type of the receiver
iter(self, order) ==
    IF variant = "btree" THEN DefaultBTreeMap_iter(self)
    ELSE DefaultHashMap_iter(self, order)
iter_mut(self, order, w) ==
    IF variant = "btree" THEN DefaultBTreeMap_iter_mut(self, w)
    ELSE DefaultHashMap_iter_mut(self, order, w)
into_iter_collect(self, order) ==
    IF variant = "btree" THEN DefaultBTreeMap_into_iter(self)
    ELSE LET c == DefaultHashMapIter_collect(DefaultHashMap_into_iter(self, order))
         IN  [self |-> c.it.defaulthashmap, ret |-> Items(c.items)]
keys(self, order) ==
    IF variant = "btree" THEN DefaultBTreeMap_keys(self)
    ELSE DefaultHashMap_keys(self, order)
values(self, order) ==
    IF variant = "btree" THEN DefaultBTreeMap_values(self)
    ELSE DefaultHashMap_values(self, order)
into_keys(self, order) ==
    IF variant = "btree" THEN DefaultBTreeMap_into_keys(self)
    ELSE DefaultHashMap_into_keys(self, order)
into_values(self, order) ==
    IF variant = "btree" THEN DefaultBTreeMap_into_values(self)
    ELSE DefaultHashMap_into_values(self, order)

\* the orders the backing map of self may visit its keys in
VisitOrders(self) ==
    IF variant = "btree" THEN {SortedKeys(DOMAIN self.inner)}
    ELSE Orders(DOMAIN self.inner)

\* for (k, v) in &map
Iter ==
    \E order \in VisitOrders(map) :
        LET res == iter(map, order)
        IN  /\ map' = res.self
            /\ last' = Call("iter", 0, 0, res)
            /\ UNCHANGED << variant, other, iterator >>

\* for (k, v) in &mut map { *v = w }
IterMut(w) ==
    \E order \in VisitOrders(map) :
        LET res == iter_mut(map, order, w)
        IN  /\ map' = res.self
            /\ last' = Call("iter_mut", 0, w, res)
            /\ UNCHANGED << variant, other, iterator >>

\* map.into_iter().collect()
IntoIter ==
    \E order \in VisitOrders(map) :
        LET res == into_iter_collect(map, order)
        IN  /\ map' = res.self
            /\ last' = Call("into_iter", 0, 0, res)
            /\ UNCHANGED << variant, other, iterator >>

CallKeys ==
    \E order \in VisitOrders(map) :
        LET res == keys(map, order)
        IN  /\ map' = res.self
            /\ last' = Call("keys", 0, 0, res)
            /\ UNCHANGED << variant, other, iterator >>

CallValues ==
    \E order \in VisitOrders(map) :
        LET res == values(map, order)
        IN  /\ map' = res.self
            /\ last' = Call("values", 0, 0, res)
            /\ UNCHANGED << variant, other, iterator >>

IntoKeys ==
    \E order \in VisitOrders(map) :
        LET res == into_keys(map, order)
        IN  /\ map' = res.self
            /\ last' = Call("into_keys", 0, 0, res)
            /\ UNCHANGED << variant, other, iterator >>

IntoValues ==
    \E order \in VisitOrders(map) :
        LET res == into_values(map, order)
        IN  /\ map' = res.self
            /\ last' = Call("into_values", 0, 0, res)
            /\ UNCHANGED << variant, other, iterator >>

NextIter ==
    \/ \E k \in KeysI, v \in ValuesI : Insert(k, v)
    \/ \E k \in KeysI : GetMut(k)
    \/ \E k \in KeysI : Remove(k)
    \/ \E k \in KeysI : Get(k)
    \/ \E k \in KeysI : GetKeyValue(k)
    \/ \E k \in KeysI : Index(k)
    \/ Iter
    \/ \E w \in {NoWrite} \cup ValuesI : IterMut(w)
    \/ IntoIter
    \/ CallKeys
    \/ CallValues
    \/ IntoKeys
    \/ IntoValues

SpecIter == Init /\ [][NextIter]_vars

\* the set of things a sequence holds
Elems(seq) == {seq[i] : i \in 1..Len(seq)}

\* the stored entries of a map, as a set of pairs
Entries(m) == {<< k, m.inner[k] >> : k \in DOMAIN m.inner}

PairIterOps == {"iter", "iter_mut", "into_iter"}
ReadOps == {"get", "get_key_value", "index"}

\* C13: iteration (consuming, borrowing, mutably borrowing) visits exactly
\* the entries stored in the map, each once ...
C13_VisitsStored ==
    (last.op \in PairIterOps) =>
        /\ Elems(last.ret[2]) = Entries(last.before)
        /\ Len(last.ret[2]) = len(last.before)

\* ... a key that was only queried with get, get_key_value or index just
\* before does not appear, a key materialized by get_mut just before appears
\* paired with the default value.
C13_QueriedOrMaterialized ==
    (last'.op \in PairIterOps) =>
        /\ (last.op \in ReadOps /\ WasAbsent) =>
              \A p \in Elems(last'.ret[2]) : p[1] # last.key
        /\ (last.op = "get_mut" /\ WasAbsent) =>
              << last.key, V_default >> \in Elems(last'.ret[2])

C13_Iteration == [] C13_VisitsStored /\ [][C13_QueriedOrMaterialized]_vars

C13_Witness ==
    /\ last.op = "into_iter"
    /\ variant = "hash"
    /\ len(last.before) = 3
    /\ \E k \in DOMAIN last.before.inner : last.before.inner[k] # V_default
    /\ is_empty(map)

KeyIterOps == {"keys", "into_keys"}
ValueIterOps == {"values", "into_values"}

IsAscending(seq) == \A i \in 1..(Len(seq) - 1) : seq[i] < seq[i + 1]

\* C18: in the ordered variant every iteration (borrowing, consuming, keys,
\* values, into_keys, into_values) visits the entries in ascending key
\* order, whatever order they were inserted or materialized in.
C18_AscendingOrder ==
    (variant = "btree") =>
        /\ (last.op \in {"iter", "into_iter"}) =>
              /\ IsAscending([i \in 1..Len(last.ret[2]) |-> last.ret[2][i][1]])
              /\ Elems(last.ret[2]) = Entries(last.before)
        /\ (last.op \in KeyIterOps) =>
              /\ IsAscending(last.ret[2])
              /\ Elems(last.ret[2]) = DOMAIN last.before.inner
        /\ (last.op \in ValueIterOps) =>
              \E ks \in Orders(DOMAIN last.before.inner) :
                  /\ IsAscending(ks)
                  /\ last.ret[2] = [i \in 1..Len(ks) |-> last.before.inner[ks[i]]]

C18_Witness ==
    /\ variant = "btree"
    /\ last.op = "keys"
    /\ last.ret = Items(<< 0, 1, 2 >>)
    /\ map.inner[0] # map.inner[1]

\* --------------------------------------------------------- conversions
\* a plain BTreeMap / HashMap handed to or received from the caller
Backing(b) == << "backing", b >>

\* the plain maps a caller can build over the iteration bounds
Backings == UNION {[D -> ValuesI] : D \in SUBSET KeysI}

\* From<BTreeMap<K, V>> for DefaultBTreeMap<K, V>
DefaultBTreeMap_from(btree) == [inner |-> btree, default |-> V_default]

\* From<DefaultBTreeMap<K, V>> for BTreeMap<K, V>
BTreeMap_from(btree) == [self |-> Moved(btree), ret |-> Backing(btree.inner)]

\* a conversion that keeps the keys and resets every value
DefaultHashMap_from_keys_only(hashmap) ==
    [inner |-> [k \in DOMAIN hashmap |-> V_default], default |-> V_default]

\* From<HashMap<K, V, S>> for DefaultHashMap<K, V, S>
DefaultHashMap_from(hashmap) == [inner |-> hashmap, default |-> V_default]

\* From<DefaultHashMap<K, V, S>> for HashMap<K, V, S>
HashMap_from(hashmap) == [self |-> Moved(hashmap), ret |-> Backing(hashmap.inner)]

from_backing(b) ==
    IF variant = "btree" THEN DefaultBTreeMap_from(b) ELSE DefaultHashMap_from(b)
into_backing(self) ==
    IF variant = "btree" THEN BTreeMap_from(self) ELSE HashMap_from(self)

\* let map = DefaultMap::from(b)
FromBacking(b) ==
    /\ map' = from_backing(b)
    /\ last' = Call("from", 0, b, [ret |-> Unit])
    /\ UNCHANGED << variant, other, iterator >>

\* let b: BackingMap = map.into()
IntoBacking ==
    LET res == into_backing(map)
    IN  /\ map' = res.self
        /\ last' = Call("into", 0, 0, res)
        /\ UNCHANGED << variant, other, iterator >>

NextConv ==
    \/ \E k \in KeysI, v \in ValuesI : Insert(k, v)
    \/ \E k \in KeysI : GetMut(k)
    \/ \E k \in KeysI : Remove(k)
    \/ \E b \in Backings : FromBacking(b)
    \/ IntoBacking

SpecConv == Init /\ [][NextConv]_vars

\* the pairs of a plain map, listed in the key order ks
PairsOf(b, ks) == [i \in 1..Len(ks) |-> << ks[i], b[ks[i]] >>]

\* C14: converting a map out and back yields identical entries and a fresh
\* default; converting a backing container in yields a map equal to the one
\* built by inserting the same pairs into a new() map; converting out
\* yields exactly the stored entries.
C14_Conversions ==
    /\ (last.op = "into") =>
          /\ DOMAIN last.ret[2] = DOMAIN last.before.inner
          /\ \A k \in DOMAIN last.ret[2] : last.ret[2][k] = last.before.inner[k]
          /\ SameEntries(from_backing(last.ret[2]), last.before)
          /\ from_backing(last.ret[2]).default = V_default
    /\ (last.op = "from") =>
          /\ map.default = V_default
          /\ \A ks \in Orders(DOMAIN last.val) :
                /\ eq(map, macro_pairs(PairsOf(last.val, ks)))
                /\ SameEntries(map, macro_pairs(PairsOf(last.val, ks)))

C14_Witness ==
    /\ last.op = "into"
    /\ len(last.before) = 3
    /\ \E k \in DOMAIN last.before.inner : last.before.inner[k] # V_default
    /\ last.ret = Backing(last.before.inner)

\* -------------------------------------------------------------- retain
\* the closures handed to retain: |k, v| { *v = write; k <= maxkey && *v >= minval }
\* (write = NoWrite leaves the value alone)
Closures ==
    [maxkey : KeysI \cup {-1}, write : {NoWrite} \cup ValuesI, minval : ValuesI]

\* one call of the closure: the value it leaves and the bool it returns
closure_call(f, k, v) ==
    LET nv == apply_write(f.write, v)
    IN  [v |-> nv, keep |-> (k <= f.maxkey /\ nv >= f.minval)]

\* retain of the backing map: call f on every entry, drop those it rejects
inner_retain(inner, f) ==
    [k \in {j \in DOMAIN inner : closure_call(f, j, inner[j]).keep} |->
        closure_call(f, k, inner[k]).v]

\* retain that drops the entries the closure accepts
DefaultBTreeMap_retain_inverted(self, func) ==
    [self |-> [self EXCEPT !.inner =
                  [k \in {j \in DOMAIN self.inner :
                              ~closure_call(func, j, self.inner[j]).keep} |->
                      closure_call(func, k, self.inner[k]).v]],
     ret |-> Unit]

DefaultBTreeMap_retain(self, func) ==
    [self |-> [self EXCEPT !.inner = inner_retain(self.inner, func)], ret |-> Unit]

DefaultHashMap_retain(self, func) ==
    [self |-> [self EXCEPT !.inner = inner_retain(self.inner, func)], ret |-> Unit]

retain(self, func) ==
    IF variant = "btree" THEN DefaultBTreeMap_retain(self, func)
    ELSE DefaultHashMap_retain(self, func)

Retain(f) ==
    LET res == retain(map, f)
    IN  /\ map' = res.self
        /\ last' = Call("retain", 0, f, res)
        /\ UNCHANGED << variant, other, iterator >>

NextRetain ==
    \/ \E k \in KeysI, v \in ValuesI : Insert(k, v)
    \/ \E k \in KeysI : GetMut(k)
    \/ \E k \in KeysI : Remove(k)
    \/ \E f \in Closures : Retain(f)

SpecRetain == Init /\ [][NextRetain]_vars

\* C15: retain(p) leaves exactly the entries for which p returned true and
\* removes every entry for which it returned false; a retained entry holds
\* the value p left in it; retain never adds a key.
C15_Retain ==
    (last.op = "retain") =>
        /\ DOMAIN map.inner \subseteq DOMAIN last.before.inner
        /\ \A k \in DOMAIN last.before.inner :
              LET c == closure_call(last.val, k, last.before.inner[k])
              IN  /\ c.keep => (contains_key(map, k) /\ map.inner[k] = c.v)
                  /\ ~c.keep => ~contains_key(map, k)

C15_Witness ==
    /\ last.op = "retain"
    /\ len(last.before) = 3
    /\ len(map) = 2
    /\ last.val.write # NoWrite
    /\ \E k \in DOMAIN map.inner : map.inner[k] # last.before.inner[k]

\* --------------------------------------------------------------- range
\* std::ops::Bound
Included(x) == << "included", x >>
Excluded(x) == << "excluded", x >>
Unbounded == << "unbounded" >>

\* the bounds tried: an end point at every key
BoundPoints == KeysI
Bounds == {Included(x) : x \in BoundPoints} \cup {Excluded(x) : x \in BoundPoints}
              \cup {Unbounded}

\* the documented panics of range / range_mut: start > end, or start == end
\* with both bounds Excluded
range_panics(lo, hi) ==
    /\ lo # Unbounded
    /\ hi # Unbounded
    /\ \/ lo[2] > hi[2]
       \/ (lo[2] = hi[2] /\ lo[1] = "excluded" /\ hi[1] = "excluded")

\* RangeBounds::contains
range_contains(lo, hi, k) ==
    /\ (lo = Unbounded \/ (lo[1] = "included" /\ lo[2] <= k)
                       \/ (lo[1] = "excluded" /\ lo[2] < k))
    /\ (hi = Unbounded \/ (hi[1] = "included" /\ k <= hi[2])
                       \/ (hi[1] = "excluded" /\ k < hi[2]))

\* BTreeMap::range: the stored entries inside the bounds, ascending
inner_range(inner, lo, hi) ==
    IF range_panics(lo, hi) THEN Panic
    ELSE Items(inner_iter(inner,
                          SortedKeys({k \in DOMAIN inner : range_contains(lo, hi, k)})))

\* a range that yields every key inside the bounds, absent ones with the default
DefaultBTreeMap_range_filling(self, lo, hi) ==
    IF range_panics(lo, hi) THEN [self |-> self, ret |-> Panic]
    ELSE LET ks == SortedKeys({k \in KeysI : range_contains(lo, hi, k)})
         IN  [self |-> self,
              ret |-> Items([i \in 1..Len(ks) |->
                               << ks[i], unwrap_or(inner_get(self.inner, ks[i]), self.default) >>])]

DefaultBTreeMap_range(self, lo, hi) ==
    [self |-> self, ret |-> inner_range(self.inner, lo, hi)]

\* a range_mut whose loop reaches every stored entry, whatever the bounds
DefaultBTreeMap_range_mut_all(self, lo, hi, w) ==
    IF range_panics(lo, hi) THEN [self |-> self, ret |-> Panic]
    ELSE [self |-> [self EXCEPT !.inner =
                       [k \in DOMAIN self.inner |-> apply_write(w, self.inner[k])]],
          ret |-> inner_range(self.inner, lo, hi)]

\* a range_mut that yields nothing for bounds it cannot serve
DefaultBTreeMap_range_mut_lenient(self, lo, hi, w) ==
    IF range_panics(lo, hi) THEN [self |-> self, ret |-> Items(<< >>)]
    ELSE [self |-> [self EXCEPT !.inner =
                       [k \in DOMAIN self.inner |->
                           IF range_contains(lo, hi, k) THEN apply_write(w, self.inner[k])
                           ELSE self.inner[k]]],
          ret |-> inner_range(self.inner, lo, hi)]

\* range_mut, the loop body writing w through every reference it is handed
DefaultBTreeMap_range_mut(self, lo, hi, w) ==
    IF range_panics(lo, hi) THEN [self |-> self, ret |-> Panic]
    ELSE [self |-> [self EXCEPT !.inner =
                       [k \in DOMAIN self.inner |->
                           IF range_contains(lo, hi, k) THEN apply_write(w, self.inner[k])
                           ELSE self.inner[k]]],
          ret |-> inner_range(self.inner, lo, hi)]

\* map.range((lo, hi)).collect()
CallRange(lo, hi) ==
    LET res == DefaultBTreeMap_range(map, lo, hi)
    IN  /\ variant = "btree"
        /\ map' = res.self
        /\ last' = Call("range", 0, << lo, hi >>, res)
        /\ UNCHANGED << variant, other, iterator >>

\* for (k, v) in map.range_mut((lo, hi)) { *v = w }
CallRangeMut(lo, hi, w) ==
    LET res == DefaultBTreeMap_range_mut(map, lo, hi, w)
    IN  /\ variant = "btree"
        /\ map' = res.self
        /\ last' = [Call("range_mut", 0, << lo, hi >>, res) EXCEPT !.key = w]
        /\ UNCHANGED << variant, other, iterator >>

InitBTree == Init /\ variant = "btree"

NextRange ==
    \/ \E k \in KeysI, v \in ValuesI : Insert(k, v)
    \/ \E k \in KeysI : GetMut(k)
    \/ \E k \in KeysI : Remove(k)
    \/ \E lo \in Bounds, hi \in Bounds : CallRange(lo, hi)
    \/ \E lo \in Bounds, hi \in Bounds : CallRangeMut(lo, hi, MaxValI)

SpecRange == InitBTree /\ [][NextRange]_vars

\* C16: in the ordered variant range(lo..hi) yields exactly the stored
\* entries with lo <= k < hi, in ascending key order, each with its stored
\* value; keys in the range that are not stored are skipped.
C16_RangeHalfOpen ==
    (last.op = "range") =>
        \A lo \in BoundPoints, hi \in BoundPoints :
            (lo <= hi /\ last.val = << Included(lo), Excluded(hi) >>) =>
                /\ last.ret[1] = "items"
                /\ Elems(last.ret[2]) =
                      {<< k, last.before.inner[k] >> :
                          k \in {j \in DOMAIN last.before.inner : lo <= j /\ j < hi}}
                /\ IsAscending([i \in 1..Len(last.ret[2]) |-> last.ret[2][i][1]])
                /\ map = last.before

C16_Witness ==
    /\ last.op = "range"
    /\ last.val = << Included(0), Excluded(2) >>
    /\ DOMAIN last.before.inner = {1, 2}
    /\ last.before.inner[1] # V_default
    /\ last.ret = Items(<< << 1, last.before.inner[1] >> >>)

MaxMacroLen == 2

\* the sequences over S of length at most n
SeqsUpTo(S, n) == UNION {[1..m -> S] : m \in 0..n}

\* what is written between the brackets of the macro: nothing, bare keys or
\* pairs, with or without a trailing comma
Invocations ==
    [kind : {"none"}, items : {<< >>}, trailing : BOOLEAN]
    \cup [kind : {"keys"}, items : SeqsUpTo(Keys2, MaxMacroLen) \ {<< >>},
          trailing : BOOLEAN]
    \cup [kind : {"pairs"}, items : SeqsUpTo(Keys2 \X Values2, MaxMacroLen) \ {<< >>},
          trailing : BOOLEAN]

\* defaultbtreemap! : the arms are tried in the order they are written
defaultbtreemap(inv) ==
    IF inv.items = << >> /\ ~inv.trailing THEN DefaultBTreeMap_new
    ELSE IF inv.kind # "keys" THEN defaultbtreemap_pairs(DefaultBTreeMap_new, inv.items)
    ELSE defaultbtreemap_keys(DefaultBTreeMap_new, inv.items)

\* defaulthashmap!
defaulthashmap(inv) ==
    IF inv.items = << >> /\ ~inv.trailing THEN DefaultHashMap_new
    ELSE IF inv.kind # "keys" THEN defaulthashmap_pairs(DefaultHashMap_new, inv.items)
    ELSE defaulthashmap_keys(DefaultHashMap_new, inv.items)

macro(inv) == IF variant = "btree" THEN defaultbtreemap(inv) ELSE defaulthashmap(inv)

\* let map = defaultbtreemap!(...) / defaulthashmap!(...)
Macro(inv) ==
    /\ map' = macro(inv)
    /\ last' = [op |-> "macro", key |-> 0, val |-> inv, ret |-> Unit,
                before |-> new(variant)]
    /\ UNCHANGED << variant, other, iterator >>

NextMacro ==
    \/ \E inv \in Invocations : Macro(inv)

SpecMacro == Init /\ [][NextMacro]_vars

\* the map left by calling get_mut(k) for each k of ks, in order, on m
RECURSIVE CallGetMutEach(_, _)
CallGetMutEach(m, ks) ==
    IF ks = << >> THEN m ELSE CallGetMutEach(get_mut(m, Head(ks)).self, Tail(ks))

\* the map left by calling insert(k, v) for each pair of ps, in order, on m
RECURSIVE CallInsertEach(_, _)
CallInsertEach(m, ps) ==
    IF ps = << >> THEN m
    ELSE CallInsertEach(insert(m, Head(ps)[1], Head(ps)[2]).self, Tail(ps))

\* C19: the bare-key form equals calling get_mut on each key in order on a
\* new() map (every listed key present with the default), the pair form
\* equals calling insert on each pair in order, the empty form equals
\* new(); a trailing separator does not change the result.
C19_MacroIsCalls ==
    (last.op = "macro") =>
        LET inv == last.val
        IN  /\ (inv.kind = "keys") =>
                  /\ eq(map, CallGetMutEach(new(variant), inv.items))
                  /\ DOMAIN map.inner = Elems(inv.items)
                  /\ \A k \in DOMAIN map.inner : map.inner[k] = V_default
            /\ (inv.kind = "pairs") =>
                  /\ eq(map, CallInsertEach(new(variant), inv.items))
                  /\ DOMAIN map.inner = {p[1] : p \in Elems(inv.items)}
                  /\ \A i \in 1..Len(inv.items) :
                        (\A j \in (i + 1)..Len(inv.items) : inv.items[j][1] # inv.items[i][1])
                            => map.inner[inv.items[i][1]] = inv.items[i][2]
            /\ (inv.kind = "none") => (eq(map, new(variant)) /\ is_empty(map))
            /\ eq(map, macro([inv EXCEPT !.trailing = ~inv.trailing]))
            /\ map.default = V_default

C19_Witness ==
    /\ last.op = "macro"
    /\ last.val.kind = "keys"
    /\ last.val.trailing
    /\ len(map) = 2
    /\ \A k \in DOMAIN map.inner : map.inner[k] = V_default

\* --------------------------------------------------------------- entry
\* btree_map::Entry / hash_map::Entry
Vacant(k) == << "vacant", k >>
Occupied(k, v) == << "occupied", k, v >>

\* entry of the backing map: Occupied for a stored key, Vacant otherwise
inner_entry(inner, key) ==
    IF key \in DOMAIN inner THEN Occupied(key, inner[key]) ELSE Vacant(key)

\* an entry that first materializes the default, as get_mut does
DefaultBTreeMap_entry_materializing(self, key) ==
    LET s1 == DefaultBTreeMap_get_mut(self, key).self
    IN  [self |-> s1, ret |-> inner_entry(s1.inner, key)]

DefaultBTreeMap_entry(self, key) ==
    [self |-> self, ret |-> inner_entry(self.inner, key)]

DefaultHashMap_entry(self, key) ==
    [self |-> self, ret |-> inner_entry(self.inner, key)]

entry(self, key) ==
    IF variant = "btree" THEN DefaultBTreeMap_entry(self, key)
    ELSE DefaultHashMap_entry(self, key)

\* VacantEntry::insert(value)
VacantEntry_insert(self, e, value) ==
    [self EXCEPT !.inner = inner_insert(self.inner, e[2], value).map]

\* *OccupiedEntry::into_mut() = w
OccupiedEntry_into_mut_write(self, e, w) ==
    [self EXCEPT !.inner = [self.inner EXCEPT ![e[2]] = apply_write(w, self.inner[e[2]])]]

\* let _ = map.entry(k)
Entry(k) ==
    LET res == entry(map, k)
    IN  /\ map' = res.self
        /\ last' = Call("entry", k, 0, res)
        /\ UNCHANGED << variant, other, iterator >>

\* if let Entry::Vacant(e) = map.entry(k) { e.insert(v); }
EntryVacantInsert(k, v) ==
    LET res == entry(map, k)
    IN  /\ map' = IF res.ret[1] = "vacant" THEN VacantEntry_insert(res.self, res.ret, v)
                  ELSE res.self
        /\ last' = Call("entry_vacant_insert", k, v, res)
        /\ UNCHANGED << variant, other, iterator >>

\* if let Entry::Occupied(e) = map.entry(k) { *e.into_mut() = w; }
EntryOccupiedWrite(k, w) ==
    LET res == entry(map, k)
    IN  /\ map' = IF res.ret[1] = "occupied"
                  THEN OccupiedEntry_into_mut_write(res.self, res.ret, w)
                  ELSE res.self
        /\ last' = Call("entry_occupied_write", k, w, res)
        /\ UNCHANGED << variant, other, iterator >>

NextEntry ==
    \/ \E k \in KeysI, v \in ValuesI : Insert(k, v)
    \/ \E k \in KeysI : GetMut(k)
    \/ \E k \in KeysI : Remove(k)
    \/ \E k \in KeysI : Get(k)
    \/ \E k \in KeysI : Entry(k)
    \/ \E k \in KeysI, v \in ValuesI : EntryVacantInsert(k, v)
    \/ \E k \in KeysI, w \in ValuesI : EntryOccupiedWrite(k, w)

SpecEntry == Init /\ [][NextEntry]_vars

EntryOps == {"entry", "entry_vacant_insert", "entry_occupied_write"}

\* C20: entry(k) performs no default substitution: for an absent key it is
\* vacant and calling it without inserting leaves the map unchanged;
\* inserting v through the vacant entry makes k present with value v; for a
\* present key the entry is occupied and a write through it is seen by
\* get(k) ...
C20_EntryState ==
    (last.op \in EntryOps) =>
        /\ WasAbsent => last.ret = Vacant(last.key)
        /\ WasPresent => last.ret = Occupied(last.key, last.before.inner[last.key])
        /\ (last.op = "entry") => map = last.before
        /\ (last.op = "entry_vacant_insert" /\ WasAbsent) =>
              /\ contains_key(map, last.key)
              /\ get(map, last.key).ret = Ref(last.val)
              /\ len(map) = len(last.before) + 1
        /\ (last.op = "entry_vacant_insert" /\ WasPresent) => map = last.before
        /\ (last.op = "entry_occupied_write" /\ WasPresent) =>
              /\ get(map, last.key).ret = Ref(last.val)
              /\ len(map) = len(last.before)
        /\ (last.op = "entry_occupied_write" /\ WasAbsent) => map = last.before
        /\ OthersUnchanged

\* ... and the entry of an absent key is vacant even when get(k) was called
\* just before and returned the default.
C20_VacantAfterGet ==
    (/\ last.op = "get"
     /\ WasAbsent
     /\ last.ret = Ref(V_default)
     /\ last'.op \in EntryOps
     /\ last'.key = last.key) => last'.ret = Vacant(last.key)

C20_Entry == [] C20_EntryState /\ [][C20_VacantAfterGet]_vars

C20_Witness ==
    /\ last.op = "entry_vacant_insert"
    /\ WasAbsent
    /\ last.val # V_default
    /\ len(map) >= 2
    /\ map.inner[last.key] = last.val

\* ------------------------------------------------- every way to add a key
\* BTreeMap::append: moves every entry of other into self; a key held by
\* both takes other's value
inner_append(a, b) ==
    [k \in DOMAIN a \cup DOMAIN b |-> IF k \in DOMAIN b THEN b[k] ELSE a[k]]

\* an append that keeps self's value for a key both maps hold
DefaultBTreeMap_append_keep_self(self, oth) ==
    [self |-> [self EXCEPT !.inner = inner_append(oth.inner, self.inner)],
     other |-> [oth EXCEPT !.inner = EmptyInner],
     ret |-> Unit]

DefaultBTreeMap_append(self, oth) ==
    [self |-> [self EXCEPT !.inner = inner_append(self.inner, oth.inner)],
     other |-> [oth EXCEPT !.inner = EmptyInner],
     ret |-> Unit]

\* map.contains_key(&k)
ContainsKey(k) ==
    /\ last' = Call("contains_key", k, 0, [ret |-> Bool(contains_key(map, k))])
    /\ UNCHANGED << variant, map, other, iterator >>

\* map.append(&mut other), ordered variant only
CallAppend ==
    LET res == DefaultBTreeMap_append(map, other)
    IN  /\ variant = "btree"
        /\ map' = res.self
        /\ other' = res.other
        /\ last' = Call("append", 0, Backing(other.inner), res)
        /\ UNCHANGED << variant, iterator >>

\* the plain maps handed to a conversion, told apart by their key sets
KeyBackings == UNION {[D -> {MaxVal2}] : D \in SUBSET Keys2}

\* the macro invocations of at most one item
ShortInvocations == {inv \in Invocations : Len(inv.items) <= 1}

NextAll ==
    \/ \E k \in Keys2 : Get(k)
    \/ \E k \in Keys2 : GetKeyValue(k)
    \/ \E k \in Keys2 : Index(k)
    \/ \E k \in Keys2 : ContainsKey(k)
    \/ \E k \in Keys2 : Remove(k)
    \/ \E k \in Keys2 : RemoveEntry(k)
    \/ \E k \in Keys2, v \in Values2 : Insert(k, v)
    \/ \E k \in Keys2 : GetMut(k)
    \/ \E k \in Keys2 : Entry(k)
    \/ \E k \in Keys2, v \in Values2 : EntryVacantInsert(k, v)
    \/ \E k \in Keys2, v \in Values2 : InsertOther(k, v)
    \/ CallAppend
    \/ \E b \in KeyBackings : FromBacking(b)
    \/ \E inv \in ShortInvocations : Macro(inv)

SpecAll == Init /\ [][NextAll]_vars

\* the keys stored now that were not stored before the last call
AddedKeys == DOMAIN map.inner \ DOMAIN last.before.inner

ReadSideOps == {"get", "get_key_value", "index", "contains_key", "entry"}

\* the keys an invocation of the macro names
InvocationKeys(inv) ==
    IF inv.kind = "pairs" THEN {inv.items[i][1] : i \in 1..Len(inv.items)}
    ELSE {inv.items[i] : i \in 1..Len(inv.items)}

\* C11: a key is stored only if an explicit insertion (insert, a
\* vacant-entry insert, append, a conversion, the macro) or get_mut put it
\* there: a new map stores nothing, each of those calls adds only the keys
\* it names, and get, get_key_value, index, contains_key, remove and
\* remove_entry add no key, on an absent key they leave the map as it was.
C11_KeysOnlyByInsertion ==
    /\ (last.op = "new") => DOMAIN map.inner = {}
    /\ (last.op \in ReadSideOps) => map = last.before
    /\ (last.op \in {"remove", "remove_entry"}) =>
          /\ AddedKeys = {}
          /\ WasAbsent => map = last.before
    /\ (last.op \in {"insert", "get_mut", "entry_vacant_insert"}) =>
          AddedKeys \subseteq {last.key}
    /\ (last.op = "other.insert") => map = last.before
    /\ (last.op = "append") => AddedKeys \subseteq DOMAIN last.val[2]
    /\ (last.op = "from") => DOMAIN map.inner = DOMAIN last.val
    /\ (last.op = "macro") => DOMAIN map.inner = InvocationKeys(last.val)
    /\ last.op \in ReadSideOps \cup
          {"new", "remove", "remove_entry", "insert", "get_mut",
           "entry_vacant_insert", "other.insert", "append", "from", "macro"}

C11_Witness ==
    /\ last.op \in {"get", "get_key_value", "index", "contains_key"}
    /\ WasAbsent
    /\ ~contains_key(map, last.key)
    /\ len(map) >= 1

\* -------------------------------------------- writes through get_mut
\* *handle = w, for the handle get_mut(key) returned: the handle points at
\* the entry of key in the backing map
RefMut_write(self, key, w) ==
    [self EXCEPT !.inner = [self.inner EXCEPT ![key] = w]]

\* *map.get_mut(&k) = w
GetMutWrite(k, w) ==
    LET res == get_mut(map, k)
    IN  /\ map' = RefMut_write(res.self, k, w)
        /\ last' = Call("get_mut_write", k, w, res)
        /\ UNCHANGED << variant, other, iterator >>

NextHandle ==
    \/ \E k \in KeysI, v \in ValuesI : Insert(k, v)
    \/ \E k \in KeysI : GetMut(k)
    \/ \E k \in KeysI : Remove(k)
    \/ \E k \in KeysI : Get(k)
    \/ \E k \in KeysI, w \in ValuesI : GetMutWrite(k, w)

SpecHandle == Init /\ [][NextHandle]_vars

\* C21: a value written through the handle returned by get_mut(k) is the
\* value a subsequent get(k) returns, whether k was present or absent
\* before the get_mut call; the handle showed the stored value, or the
\* default for an absent key, and no other entry changed.
C21_GetMutWrite ==
    (last.op = "get_mut_write") =>
        /\ get(map, last.key).ret = Ref(last.val)
        /\ get(get(map, last.key).self, last.key).ret = Ref(last.val)
        /\ contains_key(map, last.key)
        /\ WasPresent => last.ret = RefMut(last.before.inner[last.key])
        /\ WasAbsent => last.ret = RefMut(V_default)
        /\ OthersUnchanged

C21_Witness ==
    /\ last.op = "get_mut_write"
    /\ WasAbsent
    /\ last.val # V_default
    /\ len(map) >= 2
    /\ get(map, last.key).ret = Ref(last.val)

\* ------------------------------------------------ new, default and clear
\* impl Default: Self::new()
DefaultBTreeMap_default == DefaultBTreeMap_new
DefaultHashMap_default == DefaultHashMap_new

default_map(var) ==
    IF var = "btree" THEN DefaultBTreeMap_default ELSE DefaultHashMap_default

\* a clear that resets the values and keeps the keys
DefaultBTreeMap_clear_values(self) ==
    [self |-> [self EXCEPT !.inner = [k \in DOMAIN self.inner |-> V_default]],
     ret |-> Unit]

\* self._inner.clear()
DefaultBTreeMap_clear(self) ==
    [self |-> [self EXCEPT !.inner = EmptyInner], ret |-> Unit]

DefaultHashMap_clear(self) ==
    [self |-> [self EXCEPT !.inner = EmptyInner], ret |-> Unit]

clear(self) ==
    IF variant = "btree" THEN DefaultBTreeMap_clear(self) ELSE DefaultHashMap_clear(self)

\* map = DefaultMap::new()
New ==
    /\ map' = new(variant)
    /\ last' = Call("new", 0, 0, [ret |-> Unit])
    /\ UNCHANGED << variant, other, iterator >>

\* map = Default::default()
CallDefault ==
    /\ map' = default_map(variant)
    /\ last' = Call("default", 0, 0, [ret |-> Unit])
    /\ UNCHANGED << variant, other, iterator >>

\* map.clear()
Clear ==
    LET res == clear(map)
    IN  /\ map' = res.self
        /\ last' = Call("clear", 0, 0, res)
        /\ UNCHANGED << variant, other, iterator >>

NextClear ==
    \/ \E k \in KeysI, v \in ValuesI : Insert(k, v)
    \/ \E k \in KeysI : GetMut(k)
    \/ \E k \in KeysI : Remove(k)
    \/ New
    \/ CallDefault
    \/ Clear

SpecClear == Init /\ [][NextClear]_vars

\* a map that stores nothing and answers every key with the default
IsEmptyMap(m) ==
    /\ len(m) = 0
    /\ is_empty(m)
    /\ \A k \in KeysI : get(m, k).ret = Ref(V_default)

\* C22: new() returns an empty map (len 0, is_empty true, get of every key
\* is the default) that equals Default::default(); after clear() on any
\* map, the map is empty and compares equal to a freshly constructed new()
\* map.
C22_NewDefaultClear ==
    /\ (last.op \in {"new", "default"}) =>
          /\ IsEmptyMap(map)
          /\ eq(new(variant), default_map(variant))
          /\ eq(map, new(variant))
          /\ eq(map, default_map(variant))
    /\ (last.op = "clear") =>
          /\ IsEmptyMap(map)
          /\ eq(map, new(variant))
          /\ eq(new(variant), map)

C22_Witness ==
    /\ last.op = "clear"
    /\ len(last.before) >= 2
    /\ \E k \in DOMAIN last.before.inner : last.before.inner[k] # V_default
    /\ is_empty(map)

\* ---------------------------------------------- collecting into a map
\* HashMap::from_iter: each pair of the iterator stored in turn, a later
\* pair replacing an earlier one of the same key
RECURSIVE HashMap_from_iter(_, _)
HashMap_from_iter(inner, ps) ==
    IF ps = << >> THEN inner
    ELSE HashMap_from_iter(inner_insert(inner, Head(ps)[1], Head(ps)[2]).map, Tail(ps))

\* FromIterator<(K, V)> for DefaultHashMap: the pairs collected into the
\* backing map, which is then converted
DefaultHashMap_from_iter(ps) == DefaultHashMap_from(HashMap_from_iter(EmptyInner, ps))

\* the iterators of pairs a caller can collect
PairSeqs == SeqsUpTo(Keys2 \X Values2, MaxMacroLen)

\* let map: DefaultHashMap<K, V> = pairs.collect()
Collect(ps) ==
    /\ variant = "hash"
    /\ map' = DefaultHashMap_from_iter(ps)
    /\ last' = [op |-> "collect", key |-> 0, val |-> ps, ret |-> Unit,
                before |-> new(variant)]
    /\ UNCHANGED << variant, other, iterator >>

InitHash == Init /\ variant = "hash"

NextCollect ==
    \/ \E k \in Keys2, v \in Values2 : Insert(k, v)
    \/ \E k \in Keys2 : GetMut(k)
    \/ \E k \in Keys2 : Remove(k)
    \/ \E k \in Keys2 : Get(k)
    \/ \E ps \in PairSeqs : Collect(ps)

SpecCollect == InitHash /\ [][NextCollect]_vars

\* the value of the last pair of ps whose key is k
RECURSIVE LastValueOf(_, _, _)
LastValueOf(ps, k, d) ==
    IF ps = << >> THEN d
    ELSE LastValueOf(Tail(ps), k, IF Head(ps)[1] = k THEN Head(ps)[2] ELSE d)

IntoIterStart ==
    \E order \in Orders(DOMAIN map.inner) :
        /\ variant = "hash"
        /\ iterator = None
        /\ iterator' = Some(DefaultHashMap_into_iter(map, order))
        /\ map' = Moved(map)
        /\ last' = Call("into_iter_start", 0, << >>, [ret |-> Unit])
        /\ UNCHANGED << variant, other >>

\* it.next(); last.val lists the pairs returned since into_iter and
\* last.before stays the map that was moved into the iterator
IterNext ==
    /\ iterator # None
    /\ LET n == DefaultHashMapIter_next(iterator[1])
       IN  /\ iterator' = Some(n.it)
           /\ last' = [op |-> "next", key |-> 0,
                       val |-> IF n.ret = << "none" >> THEN last.val
                               ELSE Append(last.val, n.ret[2]),
                       ret |-> n.ret, before |-> last.before]
    /\ UNCHANGED << variant, map, other >>

NextHashIter ==
    \/ \E k \in KeysI, v \in ValuesI : iterator = None /\ Insert(k, v)
    \/ \E k \in KeysI : iterator = None /\ GetMut(k)
    \/ \E k \in KeysI : iterator = None /\ Remove(k)
    \/ IntoIterStart
    \/ IterNext

SpecHashIter == InitHash /\ [][NextHashIter]_vars

\* C24: the successive next() calls return exactly one pair per key stored
\* when into_iter was called, each with that key's stored value, never a
\* synthesized default, then None on every later call; the number of pairs
\* returned equals len at into_iter time and the owned map is empty once
\* the iterator is exhausted.
C24_ConsumingIterator ==
    (last.op = "next") =>
        LET it == iterator[1]
            again == DefaultHashMapIter_next(it)
        IN  /\ \A i \in 1..Len(last.val) :
                  /\ last.val[i] \in Entries(last.before)
                  /\ \A j \in 1..Len(last.val) : last.val[i][1] = last.val[j][1] => i = j
            /\ Len(last.val) + Len(it.keys) = len(last.before)
            /\ Entries(it.defaulthashmap) = Entries(last.before) \ Elems(last.val)
            /\ (last.ret # << "none" >>) => last.ret[2] = last.val[Len(last.val)]
            /\ (last.ret = << "none" >>) =>
                  /\ Elems(last.val) = Entries(last.before)
                  /\ Len(last.val) = len(last.before)
                  /\ is_empty(it.defaulthashmap)
                  /\ again.ret = << "none" >>
                  /\ again.it = it
            /\ (Len(last.val) = len(last.before)) => again.ret = << "none" >>

C24_Witness ==
    /\ last.op = "next"
    /\ last.ret = << "none" >>
    /\ Len(last.val) >= 2
    /\ \E i \in 1..Len(last.val) : last.val[i][2] = V_default
    /\ \E i \in 1..Len(last.val) : last.val[i][2] # V_default

\* ------------------------------------------------------------- append
NextAppend ==
    \/ \E k \in Keys2, v \in Values2 : Insert(k, v)
    \/ \E k \in Keys2 : Remove(k)
    \/ \E k \in Keys2, v \in Values2 : InsertOther(k, v)
    \/ \E k \in Keys2 : RemoveOther(k)
    \/ CallAppend

SpecAppend == InitBTree /\ [][NextAppend]_vars

\* C25: a.append(b) on ordered maps moves every entry of b into a and leaves
\* b empty: afterwards a's key set is the union of both key sets, a key that
\* was only in a keeps a's value, a key that was in b has b's value, and the
\* number of distinct keys is preserved.
C25_Append ==
    (last.op = "append") =>
        LET a == last.before.inner
            b == last.val[2]
        IN  /\ is_empty(other)
            /\ DOMAIN map.inner = DOMAIN a \cup DOMAIN b
            /\ \A k \in DOMAIN a \ DOMAIN b : get(map, k).ret = Ref(a[k])
            /\ \A k \in DOMAIN b : get(map, k).ret = Ref(b[k])
            /\ len(map) + len(other) = Cardinality(DOMAIN a \cup DOMAIN b)
            /\ map.default = last.before.default
            /\ \A k \in Keys2 \ (DOMAIN a \cup DOMAIN b) :
                  /\ ~contains_key(map, k)
                  /\ get(map, k).ret = Ref(V_default)

C25_Witness ==
    /\ last.op = "append"
    /\ \E k \in DOMAIN last.before.inner \cap DOMAIN last.val[2] :
          last.before.inner[k] # last.val[2][k]
    /\ DOMAIN last.before.inner \ DOMAIN last.val[2] # {}
    /\ len(map) >= 2
    /\ is_empty(other)

\* ---------------------------------------------------------- split_off
\* the entries of inner whose keys are in S
inner_restrict(inner, S) == [k \in DOMAIN inner \cap S |-> inner[k]]

\* BTreeMap::split_off: self keeps the keys below key, the keys at or above
\* it are returned
inner_split_off(inner, key) ==
    [map |-> inner_restrict(inner, {k \in DOMAIN inner : k < key}),
     ret |-> inner_restrict(inner, {k \in DOMAIN inner : k >= key})]

\* a split_off that leaves key itself in the receiver
DefaultBTreeMap_split_off_after(self, key) ==
    LET r == inner_split_off(self.inner, key + 1)
    IN  [self |-> [self EXCEPT !.inner = r.map], ret |-> DefaultBTreeMap_from(r.ret)]

\* self._inner.split_off(key).into()
DefaultBTreeMap_split_off(self, key) ==
    LET r == inner_split_off(self.inner, key)
    IN  [self |-> [self EXCEPT !.inner = r.map], ret |-> DefaultBTreeMap_from(r.ret)]

\* the keys a caller splits at: every key and one past the largest
SplitPoints == 0..(MaxKey2 + 1)

\* let other = map.split_off(&key)
SplitOff(key) ==
    LET res == DefaultBTreeMap_split_off(map, key)
    IN  /\ variant = "btree"
        /\ map' = res.self
        /\ other' = res.ret
        /\ last' = Call("split_off", key, 0, [ret |-> Unit])
        /\ UNCHANGED << variant, iterator >>

NextSplit ==
    \/ \E k \in Keys2, v \in Values2 : Insert(k, v)
    \/ \E k \in Keys2 : GetMut(k)
    \/ \E k \in Keys2 : Remove(k)
    \/ \E key \in SplitPoints : SplitOff(key)

SpecSplit == InitBTree /\ [][NextSplit]_vars

\* C26: split_off(key) partitions an ordered map: afterwards the receiver
\* holds exactly the entries with keys less than key, the returned map
\* exactly those with keys greater than or equal to key, values are
\* unchanged, no entry is lost or duplicated, and the returned map answers
\* get on an absent key with the value type's default.
C26_SplitOff ==
    (last.op = "split_off") =>
        /\ Entries(map) = {e \in Entries(last.before) : e[1] < last.key}
        /\ Entries(other) = {e \in Entries(last.before) : e[1] >= last.key}
        /\ Entries(map) \cup Entries(other) = Entries(last.before)
        /\ DOMAIN map.inner \cap DOMAIN other.inner = {}
        /\ len(map) + len(other) = len(last.before)
        /\ \A k \in Keys2 :
              /\ contains_key(map, k) => get(map, k).ret = get(last.before, k).ret
              /\ contains_key(other, k) => get(other, k).ret = get(last.before, k).ret
              /\ ~contains_key(other, k) => get(other, k).ret = Ref(V_default)
              /\ ~contains_key(map, k) => get(map, k).ret = Ref(V_default)

C26_Witness ==
    /\ last.op = "split_off"
    /\ len(map) >= 1
    /\ len(other) >= 1
    /\ contains_key(other, last.key)
    /\ \E k \in DOMAIN other.inner : other.inner[k] # V_default

\* ------------------------------------------- first and last of the order
MinKey(S) == CHOOSE k \in S : \A j \in S : k <= j
MaxKey_of(S) == CHOOSE k \in S : \A j \in S : j <= k

\* BTreeMap::first_key_value / last_key_value
inner_first_key_value(inner) ==
    IF DOMAIN inner = {} THEN None
    ELSE Some(<< MinKey(DOMAIN inner), inner[MinKey(DOMAIN inner)] >>)

inner_last_key_value(inner) ==
    IF DOMAIN inner = {} THEN None
    ELSE Some(<< MaxKey_of(DOMAIN inner), inner[MaxKey_of(DOMAIN inner)] >>)

\* BTreeMap::pop_first / pop_last
inner_pop_first(inner) ==
    LET kv == inner_first_key_value(inner)
    IN  IF kv = None THEN [map |-> inner, old |-> None]
        ELSE [map |-> inner_remove(inner, kv[1][1]).map, old |-> kv]

inner_pop_last(inner) ==
    LET kv == inner_last_key_value(inner)
    IN  IF kv = None THEN [map |-> inner, old |-> None]
        ELSE [map |-> inner_remove(inner, kv[1][1]).map, old |-> kv]

DefaultBTreeMap_first_key_value(self) ==
    [self |-> self, ret |-> OptOwned(inner_first_key_value(self.inner))]

DefaultBTreeMap_last_key_value(self) ==
    [self |-> self, ret |-> OptOwned(inner_last_key_value(self.inner))]

\* a pop_first that answers an empty map with a default-valued pair
DefaultBTreeMap_pop_first_defaulting(self) ==
    LET r == inner_pop_first(self.inner)
    IN  [self |-> [self EXCEPT !.inner = r.map],
         ret |-> OptOwned(Some(unwrap_or(r.old, << 0, self.default >>)))]

DefaultBTreeMap_pop_first(self) ==
    LET r == inner_pop_first(self.inner)
    IN  [self |-> [self EXCEPT !.inner = r.map], ret |-> OptOwned(r.old)]

DefaultBTreeMap_pop_last(self) ==
    LET r == inner_pop_last(self.inner)
    IN  [self |-> [self EXCEPT !.inner = r.map], ret |-> OptOwned(r.old)]

PopFirst ==
    LET res == DefaultBTreeMap_pop_first(map)
    IN  /\ variant = "btree"
        /\ map' = res.self
        /\ last' = Call("pop_first", 0, 0, res)
        /\ UNCHANGED << variant, other, iterator >>

PopLast ==
    LET res == DefaultBTreeMap_pop_last(map)
    IN  /\ variant = "btree"
        /\ map' = res.self
        /\ last' = Call("pop_last", 0, 0, res)
        /\ UNCHANGED << variant, other, iterator >>

FirstKeyValue ==
    LET res == DefaultBTreeMap_first_key_value(map)
    IN  /\ variant = "btree"
        /\ map' = res.self
        /\ last' = Call("first_key_value", 0, 0, res)
        /\ UNCHANGED << variant, other, iterator >>

LastKeyValue ==
    LET res == DefaultBTreeMap_last_key_value(map)
    IN  /\ variant = "btree"
        /\ map' = res.self
        /\ last' = Call("last_key_value", 0, 0, res)
        /\ UNCHANGED << variant, other, iterator >>

NextPop ==
    \/ \E k \in KeysI, v \in ValuesI : Insert(k, v)
    \/ \E k \in KeysI : GetMut(k)
    \/ \E k \in KeysI : Remove(k)
    \/ PopFirst
    \/ PopLast
    \/ FirstKeyValue
    \/ LastKeyValue

SpecPop == InitBTree /\ [][NextPop]_vars

\* the stored key that pop_first / first_key_value (pop_last /
\* last_key_value) is about: no stored key is below (above) it
IsExtreme(op, k) ==
    /\ k \in DOMAIN last.before.inner
    /\ \A j \in DOMAIN last.before.inner :
          IF op \in {"pop_first", "first_key_value"} THEN k <= j ELSE j <= k

\* C27: pop_first (pop_last) on a non-empty map removes and returns the
\* entry with the minimum (maximum) key and decreases len by one; on an
\* empty map both return None, not a default-valued pair, and the map stays
\* empty; first_key_value and last_key_value likewise return None on an
\* empty map, and the extreme entry of a non-empty one without removing it.
C27_PopFirstLast ==
    (last.op \in {"pop_first", "pop_last", "first_key_value", "last_key_value"}) =>
        /\ is_empty(last.before) =>
              /\ last.ret = << "none" >>
              /\ is_empty(map)
              /\ map = last.before
        /\ ~is_empty(last.before) =>
              /\ last.ret[1] = "some"
              /\ IsExtreme(last.op, last.ret[2][1])
              /\ last.ret[2][2] = last.before.inner[last.ret[2][1]]
              /\ (last.op \in {"pop_first", "pop_last"}) =>
                    /\ len(map) = len(last.before) - 1
                    /\ ~contains_key(map, last.ret[2][1])
                    /\ Entries(map) = Entries(last.before) \ {last.ret[2]}
              /\ (last.op \in {"first_key_value", "last_key_value"}) =>
                    map = last.before

C27_Witness ==
    /\ last.op = "pop_first"
    /\ last.ret = << "none" >>
    /\ is_empty(map)
    /\ \E k \in KeysI : get(map, k).ret = Ref(V_default)

\* ------------------------------------------- writes through range_mut
\* for (k, v) in map.range_mut(lo..hi) { *v = w }, over every lo..hi
NextRangeMut ==
    \/ \E k \in KeysI, v \in ValuesI : Insert(k, v)
    \/ \E k \in KeysI : GetMut(k)
    \/ \E k \in KeysI : Remove(k)
    \/ \E lo \in BoundPoints, hi \in BoundPoints, w \in {NoWrite} \cup ValuesI :
          CallRangeMut(Included(lo), Excluded(hi), w)

SpecRangeMut == InitBTree /\ [][NextRangeMut]_vars

\* C28: mutating values through range_mut(lo..hi) on an ordered map changes
\* only the values of stored keys k with lo <= k < hi: the key set, len and
\* the values of keys outside the range are unchanged, and a subsequent
\* range over the same bounds yields the same keys in ascending order with
\* the updated values.
C28_RangeMutFrame ==
    (/\ last.op = "range_mut"
     /\ last.val[1][1] = "included"
     /\ last.val[2][1] = "excluded"
     /\ last.val[1][2] <= last.val[2][2]) =>
        LET lo == last.val[1][2]
            hi == last.val[2][2]
            inside == {k \in DOMAIN last.before.inner : lo <= k /\ k < hi}
            after == DefaultBTreeMap_range(map, Included(lo), Excluded(hi)).ret
        IN  /\ DOMAIN map.inner = DOMAIN last.before.inner
            /\ len(map) = len(last.before)
            /\ \A k \in DOMAIN map.inner \ inside :
                  map.inner[k] = last.before.inner[k]
            /\ \A k \in inside :
                  map.inner[k] = apply_write(last.key, last.before.inner[k])
            /\ \A k \in KeysI \ DOMAIN map.inner : get(map, k).ret = Ref(V_default)
            /\ after[1] = "items"
            /\ [i \in 1..Len(after[2]) |-> after[2][i][1]] = SortedKeys(inside)
            /\ [i \in 1..Len(after[2]) |-> after[2][i][1]] =
                  [i \in 1..Len(last.ret[2]) |-> last.ret[2][i][1]]
            /\ \A i \in 1..Len(after[2]) :
                  after[2][i][2] = apply_write(last.key, last.before.inner[after[2][i][1]])

C28_Witness ==
    /\ last.op = "range_mut"
    /\ last.val = << Included(0), Excluded(2) >>
    /\ last.key = MaxValI
    /\ DOMAIN last.before.inner = {1, 2}
    /\ last.before.inner[1] # MaxValI
    /\ last.before.inner[2] # MaxValI
    /\ map.inner[1] = MaxValI

\* ------------------------------------- every write through a handle
\* for v in map.values_mut() { *v = w }, with the default field among the
\* values handed out
DefaultHashMap_values_mut_with_default(self, order, w) ==
    [self |-> [inner |-> [k \in DOMAIN self.inner |-> apply_write(w, self.inner[k])],
               default |-> apply_write(w, self.default)],
     ret |-> Items(inner_values(self.inner, order))]

\* self._inner.values_mut(), the loop body writing w
DefaultHashMap_values_mut(self, order, w) ==
    [self |-> [self EXCEPT !.inner = [k \in DOMAIN self.inner |-> apply_write(w, self.inner[k])]],
     ret |-> Items(inner_values(self.inner, order))]

DefaultBTreeMap_values_mut(self, w) ==
    [self |-> [self EXCEPT !.inner = [k \in DOMAIN self.inner |-> apply_write(w, self.inner[k])]],
     ret |-> Items(inner_values(self.inner, SortedKeys(DOMAIN self.inner)))]

values_mut(self, order, w) ==
    IF variant = "btree" THEN DefaultBTreeMap_values_mut(self, w)
    ELSE DefaultHashMap_values_mut(self, order, w)

\* DefaultHashMap::with_hasher: an empty map and a fresh default
DefaultHashMap_with_hasher == [inner |-> EmptyInner, default |-> V_default]

\* for v in map.values_mut() { *v = w }
ValuesMut(w) ==
    \E order \in VisitOrders(map) :
        LET res == values_mut(map, order, w)
        IN  /\ map' = res.self
            /\ last' = Call("values_mut", 0, w, res)
            /\ UNCHANGED << variant, other, iterator >>

\* map = DefaultHashMap::with_hasher(s)
WithHasher ==
    /\ variant = "hash"
    /\ map' = DefaultHashMap_with_hasher
    /\ last' = Call("with_hasher", 0, 0, [ret |-> Unit])
    /\ UNCHANGED << variant, other, iterator >>

\* the plain maps a caller can convert, over the small bounds
Backings2 == UNION {[D -> Values2] : D \in SUBSET Keys2}

\* the end points of the ranges written through
RangePoints == 0..(MaxKey2 + 1)

NextWrites ==
    \/ \E k \in Keys2, v \in Values2 : Insert(k, v)
    \/ \E k \in Keys2 : GetMut(k)
    \/ \E k \in Keys2 : Remove(k)
    \/ \E k \in Keys2 : RemoveEntry(k)
    \/ \E k \in Keys2 : Get(k)
    \/ \E k \in Keys2, w \in Values2 : GetMutWrite(k, w)
    \/ \E w \in Values2 : ValuesMut(w)
    \/ \E w \in Values2 : IterMut(w)
    \/ \E k \in Keys2, w \in Values2 : EntryOccupiedWrite(k, w)
    \/ \E lo \in RangePoints, hi \in RangePoints, w \in Values2 :
          CallRangeMut(Included(lo), Excluded(hi), w)
    \/ \E b \in Backings2 : FromBacking(b)
    \/ New
    \/ WithHasher
    \/ Clear

SpecWrites == Init /\ [][NextWrites]_vars

\* the value a result carries
ValueOf(ret) == IF ret[1] = "pair" THEN ret[3] ELSE ret[2]

\* C29: in every reachable state and for every absent key k, the value
\* returned by get(k), by map[&k], by get_key_value(k) and by
\* remove_entry(k) (taken from the stored default field) equals the value
\* returned by remove(k) and the value materialized by get_mut(k) (freshly
\* constructed).
C29_DefaultsAgree ==
    \A k \in Keys2 :
        ~contains_key(map, k) =>
            LET d == ValueOf(get(map, k).ret)
            IN  /\ ValueOf(index(map, k).ret) = d
                /\ ValueOf(get_key_value(map, k).ret) = d
                /\ ValueOf(remove_entry(map, k).ret) = d
                /\ ValueOf(remove(map, k).ret) = d
                /\ ValueOf(get_mut(map, k).ret) = d
                /\ get_mut(map, k).self.inner[k] = d

C29_Witness ==
    /\ last.op = "iter_mut"
    /\ last.val # V_default
    /\ len(map) >= 1
    /\ \E k \in DOMAIN map.inner : map.inner[k] # V_default
    /\ \E k \in Keys2 : ~contains_key(map, k) /\ remove(map, k).ret = Owned(V_default)

WriteOps == {"get_mut_write", "values_mut", "iter_mut", "entry_occupied_write", "range_mut"}

\* C30: the stored default field is set once at construction (new,
\* with_hasher, conversion from a backing container) and no operation ever
\* modifies it: a write through a handle from get_mut, values_mut,
\* range_mut, an entry or mutable iteration changes stored entries only
\* (and with get_mut or an entry only the entry of its key), so get(j) for
\* every key j that is absent still returns the value type's default.
C30_DefaultNeverModified ==
    /\ map.default = V_default
    /\ map.default = last.before.default
    /\ \A j \in Keys2 : ~contains_key(map, j) => get(map, j).ret = Ref(V_default)
    /\ (last.op \in WriteOps \ {"get_mut_write"}) =>
          DOMAIN map.inner = DOMAIN last.before.inner
    /\ (last.op \in {"get_mut_write", "entry_occupied_write"}) => OthersUnchanged

C30_Witness ==
    /\ last.op = "values_mut"
    /\ last.val # V_default
    /\ len(map) >= 1
    /\ \A k \in DOMAIN map.inner : map.inner[k] = last.val
    /\ \E j \in Keys2 : ~contains_key(map, j) /\ get(map, j).ret = Ref(V_default)
====
